---- MODULE Spec2Model ----
(***************************************************************************)
(* Model of 08-sample-data/data_generator.py: ManufacturingDataGenerator.   *)
(*                                                                         *)
(* Floating-point quantities are fixed-point integers counted in units of  *)
(* 1/Scale (0.00005), so that the 2-, 3- and 4-decimal roundings of the     *)
(* code are real conversions.  Every random draw of the code is a          *)
(* nondeterministic choice from a small sample of the drawn range that     *)
(* always holds both ends of the range.                                    *)
(*                                                                         *)
(* A calendar date is the number of days since 2024-01-01 (a Monday).       *)
(***************************************************************************)
EXTENDS Integers, Sequences, FiniteSets, TLC

VARIABLES
    pc,               \* where the program is: which call runs or how it ended
    start_date,       \* self.start_date
    num_days,         \* self.num_days
    records_per_day,  \* argument of generate_sensor_data
    logs_per_day,     \* argument of generate_equipment_logs
    day,              \* loop variable `day`
    minute,           \* loop variable `minute` of generate_sensor_data
    ix,               \* position in self.sensors / self.equipment (1-based)
    n,                \* loop variable `_` of generate_equipment_logs
    data,             \* list `data` / DataFrame sensor_df: the identifying columns of each row
    local,            \* locals of the loop body that built the last record
    record,           \* the last `record` appended to data
    logs,             \* list `logs`: the equipment and date of each entry
    log_entry,        \* the last `log_entry` appended to logs
    files             \* what save_data has written

vars == <<pc, start_date, num_days, records_per_day, logs_per_day, day, minute,
          ix, n, data, local, record, logs, log_entry, files>>

-----------------------------------------------------------------------------
(* Bounds of the model *)

MaxDays == 2
MaxLogsPerDay == 10

(* Fixed point: 1.0 is Scale units *)
Scale == 20 * 1000

MinutesPerDay == 1440
DefaultRecordsPerDay == 1440
LastSecondOfDay == 86399

\* start_date strings given to the constructor: Friday 2024-01-05, Sunday
\* 2024-09-29 (where the seasonal term is lowest), and a string that
\* pd.to_datetime cannot parse.
StartDateInputs == {"2024-01-05", "2024-09-29", "not-a-date"}

\* records_per_day arguments: divisors of 1440 (1, 2, 24), a non-divisor (7),
\* zero, and a value above 1440.
RecordsPerDayInputs == {0, 1, 2, 7, 24, MinutesPerDay + 1}

\* logs_per_day arguments
LogsPerDayInputs == {0, 1, MaxLogsPerDay}

-----------------------------------------------------------------------------
(* Library behaviour *)

\* round(x, ndigits): to the nearest multiple of q units, ties to the even multiple
RoundTo(v, q) ==
    LET lo == (v \div q) * q
        r  == v - lo
    IN  IF 2 * r < q THEN lo
        ELSE IF 2 * r > q THEN lo + q
        ELSE IF (lo \div q) % 2 = 0 THEN lo ELSE lo + q

Round2(v) == RoundTo(v, Scale \div 100)
Round3(v) == RoundTo(v, Scale \div 1000)
Round4(v) == RoundTo(v, Scale \div 10000)

\* len(range(start, stop, step)) for step > 0
RangeLen(start, stop, step) ==
    IF stop > start THEN (stop - start + step - 1) \div step ELSE 0

\* pd.to_datetime(start_date): the date, or "raises" for a string that is no date
ToDatetime(s) ==
    CASE s = "2024-01-05" -> [raises |-> FALSE, date |-> 4]
      [] s = "2024-09-29" -> [raises |-> FALSE, date |-> 272]
      [] OTHER -> [raises |-> TRUE, date |-> 0]

\* datetime.weekday(): Monday is 0
Weekday(date) == date % 7

\* timetuple().tm_yday within 2024
DayOfYear(date) == date + 1

\* timestamp.strftime("%Y-%m-%d %H:%M:%S")
Strftime(date, seconds) == [ymd |-> date, hms |-> seconds]

\* timestamp[:10], the date part of a formatted timestamp
DatePrefix(ts) == ts.ymd

\* 2 * np.sin(2 * np.pi * day_of_year / 365), tabulated to 3 decimals
SeasonalTable == <<
    680, 1380, 2060, 2760, 3440, 4120, 4800, 5500, 6180, 6860, 7520, 8200,
    8880, 9540, 10220, 10880, 11540, 12200, 12860, 13500, 14140, 14780, 15420, 16060,
    16680, 17320, 17920, 18540, 19140, 19760, 20340, 20940, 21520, 22100, 22660, 23240,
    23780, 24340, 24880, 25420, 25940, 26460, 26980, 27480, 27980, 28460, 28940, 29420,
    29880, 30340, 30780, 31220, 31640, 32060, 32460, 32860, 33240, 33620, 34000, 34360,
    34700, 35040, 35360, 35680, 35980, 36280, 36560, 36840, 37100, 37360, 37600, 37820,
    38040, 38240, 38440, 38620, 38800, 38960, 39120, 39260, 39380, 39500, 39600, 39680,
    39760, 39840, 39900, 39940, 39980, 40000, 40000, 40000, 39980, 39960, 39920, 39860,
    39800, 39740, 39640, 39540, 39440, 39320, 39180, 39040, 38880, 38720, 38540, 38340,
    38140, 37940, 37720, 37480, 37220, 36980, 36700, 36420, 36140, 35840, 35520, 35200,
    34860, 34520, 34180, 33800, 33440, 33060, 32660, 32260, 31840, 31420, 31000, 30560,
    30100, 29640, 29180, 28700, 28220, 27740, 27240, 26720, 26200, 25680, 25160, 24620,
    24060, 23520, 22960, 22380, 21800, 21220, 20640, 20040, 19460, 18840, 18240, 17620,
    17000, 16380, 15740, 15100, 14460, 13820, 13180, 12520, 11860, 11200, 10540, 9880,
    9220, 8540, 7860, 7200, 6520, 5840, 5140, 4460, 3780, 3100, 2400, 1720,
    1040, 340, -340, -1040, -1720, -2400, -3100, -3780, -4460, -5140, -5840, -6520,
    -7200, -7860, -8540, -9220, -9880, -10540, -11200, -11860, -12520, -13180, -13820, -14460,
    -15100, -15740, -16380, -17000, -17620, -18240, -18840, -19460, -20040, -20640, -21220, -21800,
    -22380, -22960, -23520, -24060, -24620, -25160, -25680, -26200, -26720, -27240, -27740, -28220,
    -28700, -29180, -29640, -30100, -30560, -31000, -31420, -31840, -32260, -32660, -33060, -33440,
    -33800, -34180, -34520, -34860, -35200, -35520, -35840, -36140, -36420, -36700, -36980, -37220,
    -37480, -37720, -37940, -38140, -38340, -38540, -38720, -38880, -39040, -39180, -39320, -39440,
    -39540, -39640, -39740, -39800, -39860, -39920, -39960, -39980, -40000, -40000, -40000, -39980,
    -39940, -39900, -39840, -39760, -39680, -39600, -39500, -39380, -39260, -39120, -38960, -38800,
    -38620, -38440, -38240, -38040, -37820, -37600, -37360, -37100, -36840, -36560, -36280, -35980,
    -35680, -35360, -35040, -34700, -34360, -34000, -33620, -33240, -32860, -32460, -32060, -31640,
    -31220, -30780, -30340, -29880, -29420, -28940, -28460, -27980, -27480, -26980, -26460, -25940,
    -25420, -24880, -24340, -23780, -23240, -22660, -22100, -21520, -20940, -20340, -19760, -19140,
    -18540, -17920, -17320, -16680, -16060, -15420, -14780, -14140, -13500, -12860, -12200, -11540,
    -10880, -10220, -9540, -8880, -8200, -7520, -6860, -6180, -5500, -4800, -4120, -3440,
    -2760, -2060, -1380, -680, 0, 680 >>

\* random.uniform(a, b): both ends and the middle of the range
Uniform(a, b) == {a, (a + b) \div 2, b}

\* random.random() < error_rate: a draw just below the rate and one at it
RandomBelow(rate) == {r < rate : r \in {rate - 1, rate}}

\* np.random.normal(0, 0.1): zero and one draw on each side
Noise == {-(Scale \div 10 + 10), 0, Scale \div 10 + 10}

\* np.random.normal(0, 0.02)
AxisNoise == {-(Scale \div 50 + 1), Scale \div 50 + 1}

\* random.uniform(a, b) for a score: both ends, and a draw that rounding moves
UniformScore(a, b) == {a, b - 9, b}

\* random.uniform(a, b) for an operational parameter: a draw that rounding
\* moves down to a, and b
UniformParam(a, b) == {a + Scale \div 250, b}

\* random.choice([-2, -1.5, 1.5, 2]), in tenths
AnomalyFactors == {-20, -15, 15, 20}

-----------------------------------------------------------------------------
(* Configuration *)

Sensors == <<
    [sensor_id |-> "TEMP_001", equipment_id |-> "EQ_FURNACE_01", type |-> "temperature",
     location |-> "Production Line A",
     normal_range |-> <<20 * Scale, 25 * Scale>>,
     alert_threshold |-> <<15 * Scale, 35 * Scale>>,
     error_rate |-> (20 * Scale) \div 1000],
    [sensor_id |-> "TEMP_002", equipment_id |-> "EQ_FURNACE_02", type |-> "temperature",
     location |-> "Production Line B",
     normal_range |-> <<22 * Scale, 28 * Scale>>,
     alert_threshold |-> <<18 * Scale, 40 * Scale>>,
     error_rate |-> (15 * Scale) \div 1000],
    [sensor_id |-> "HUM_001", equipment_id |-> "EQ_CHAMBER_01", type |-> "humidity",
     location |-> "Quality Control",
     normal_range |-> <<45 * Scale, 55 * Scale>>,
     alert_threshold |-> <<30 * Scale, 70 * Scale>>,
     error_rate |-> (10 * Scale) \div 1000],
    [sensor_id |-> "PRESS_001", equipment_id |-> "EQ_COMPRESSOR_01", type |-> "pressure",
     location |-> "Pneumatic System",
     normal_range |-> <<100 * Scale, 120 * Scale>>,
     alert_threshold |-> <<80 * Scale, 150 * Scale>>,
     error_rate |-> (25 * Scale) \div 1000],
    [sensor_id |-> "VIB_001", equipment_id |-> "EQ_MOTOR_01", type |-> "vibration",
     location |-> "Motor Assembly",
     normal_range |-> <<(10 * Scale) \div 100, (30 * Scale) \div 100>>,
     alert_threshold |-> <<(5 * Scale) \div 100, (80 * Scale) \div 100>>,
     error_rate |-> (30 * Scale) \div 1000] >>

Equipment == <<
    [equipment_id |-> "EQ_FURNACE_01", name |-> "Industrial Furnace Unit 1",
     type |-> "Heating Equipment", location |-> "Production Line A", status |-> "operational"],
    [equipment_id |-> "EQ_FURNACE_02", name |-> "Industrial Furnace Unit 2",
     type |-> "Heating Equipment", location |-> "Production Line B", status |-> "operational"],
    [equipment_id |-> "EQ_CHAMBER_01", name |-> "Environmental Chamber",
     type |-> "Climate Control", location |-> "Quality Control", status |-> "operational"],
    [equipment_id |-> "EQ_COMPRESSOR_01", name |-> "Air Compressor System",
     type |-> "Pneumatic Equipment", location |-> "Pneumatic System", status |-> "operational"],
    [equipment_id |-> "EQ_MOTOR_01", name |-> "Primary Drive Motor",
     type |-> "Motor Assembly", location |-> "Motor Assembly", status |-> "operational"] >>

-----------------------------------------------------------------------------
(* generate_sensor_data and its helpers *)

NoRecord == [sensor_id |-> "none"]
NoLocal == [sensor_id |-> "none"]

\* the step of range(0, 1440, 1440 // records_per_day)
Step(rpd) == MinutesPerDay \div rpd

\* a range that also yields its stop value
MinuteInRangeInclusive(m) == m <= MinutesPerDay

\* whether range(0, 1440, step) still yields minute m
MinuteInRange(m) == m < MinutesPerDay

\* 6 <= hour <= 18 for a temperature sensor
DayShift(sensor, minute_of_day) ==
    /\ sensor.type = "temperature"
    /\ 6 <= minute_of_day \div 60
    /\ minute_of_day \div 60 <= 18

\* the draws of random.uniform(1, 3) that _generate_realistic_value makes:
\* none (written 0) outside the day shift
OffsetDraws(sensor, minute_of_day) ==
    IF DayShift(sensor, minute_of_day) THEN Uniform(1 * Scale, 3 * Scale) ELSE {0}

\* the weekend factor applied before the day-shift offset is added
GenerateRealisticValueWeekendFirst(sensor, date, minute_of_day, d, off) ==
    LET weekly   == IF Weekday(date) >= 5 THEN (d * 95) \div 100 ELSE d
        daily    == IF DayShift(sensor, minute_of_day) THEN weekly + off ELSE weekly
        seasonal == IF sensor.type = "temperature"
                    THEN daily + SeasonalTable[DayOfYear(date)]
                    ELSE daily
    IN  seasonal

\* _generate_realistic_value, given its draws d (from the normal range) and off
GenerateRealisticValue(sensor, date, minute_of_day, d, off) ==
    LET daily    == IF DayShift(sensor, minute_of_day) THEN d + off ELSE d
        weekly   == IF Weekday(date) >= 5 THEN (daily * 95) \div 100 ELSE daily
        seasonal == IF sensor.type = "temperature"
                    THEN weekly + SeasonalTable[DayOfYear(date)]
                    ELSE weekly
    IN  seasonal

\* the lowest band starting at 0.0
QualityBandFromZero(sensor, value) ==
    IF sensor.normal_range[1] <= value /\ value <= sensor.normal_range[2]
    THEN <<(95 * Scale) \div 100, Scale>>
    ELSE IF sensor.alert_threshold[1] <= value /\ value <= sensor.alert_threshold[2]
    THEN <<(70 * Scale) \div 100, (90 * Scale) \div 100>>
    ELSE <<0, (60 * Scale) \div 100>>

\* the bands chosen with half-open intervals
QualityBandHalfOpen(sensor, value) ==
    IF sensor.normal_range[1] <= value /\ value < sensor.normal_range[2]
    THEN <<(95 * Scale) \div 100, Scale>>
    ELSE IF sensor.alert_threshold[1] <= value /\ value < sensor.alert_threshold[2]
    THEN <<(70 * Scale) \div 100, (90 * Scale) \div 100>>
    ELSE <<(10 * Scale) \div 100, (60 * Scale) \div 100>>

\* the band _calculate_quality_score draws the score from
QualityBand(sensor, value) ==
    IF sensor.normal_range[1] <= value /\ value <= sensor.normal_range[2]
    THEN <<(95 * Scale) \div 100, Scale>>
    ELSE IF sensor.alert_threshold[1] <= value /\ value <= sensor.alert_threshold[2]
    THEN <<(70 * Scale) \div 100, (90 * Scale) \div 100>>
    ELSE <<(10 * Scale) \div 100, (60 * Scale) \div 100>>

\* the scores _calculate_quality_score can return
CalculateQualityScore(sensor, value) ==
    UniformScore(QualityBand(sensor, value)[1], QualityBand(sensor, value)[2])

\* the anomaly factor applied to the noisy value
ReadingValueKeepsNoise(base_value, noise, is_anomaly, factor) ==
    IF is_anomaly THEN ((base_value + noise) * factor) \div 10 ELSE base_value + noise

\* `value` after lines 137-144
ReadingValue(base_value, noise, is_anomaly, factor) ==
    IF is_anomaly THEN (base_value * factor) \div 10 ELSE base_value + noise

\* record["status"]
Status(is_anomaly) == IF is_anomaly THEN "error" ELSE "normal"

\* the sensor-specific fields of a record, lines 162-176
SensorFields(sensor, value, ax, ay, az) ==
    CASE sensor.type = "temperature" ->
           [temperature |-> Round3(value), unit |-> "celsius"]
      [] sensor.type = "humidity" ->
           [humidity |-> Round3(value), unit |-> "percent"]
      [] sensor.type = "pressure" ->
           [pressure |-> Round3(value), unit |-> "psi"]
      [] sensor.type = "vibration" ->
           [vibration_magnitude |-> Round3(value),
            vibration_x |-> Round4(value + ax),
            vibration_y |-> Round4(value + ay),
            vibration_z |-> Round4(value + az),
            unit |-> "g"]

\* the draws of np.random.normal(0, 0.02): made for vibration sensors only
AxisDraws(sensor) == IF sensor.type = "vibration" THEN AxisNoise ELSE {0}

\* `record`, lines 149-176
MakeRecord(sensor, date, minute_of_day, value, is_anomaly, quality_score, ax, ay, az) ==
    [sensor_id |-> sensor.sensor_id,
     equipment_id |-> sensor.equipment_id,
     timestamp |-> Strftime(date, minute_of_day * 60),
     value |-> Round3(value),
     sensor_type |-> sensor.type,
     location |-> sensor.location,
     status |-> Status(is_anomaly),
     quality_score |-> Round3(quality_score),
     is_anomaly |-> is_anomaly]
    @@ SensorFields(sensor, value, ax, ay, az)

\* the columns of a row that tell it from every other row
RowKey(r) == [sensor_id |-> r.sensor_id, timestamp |-> r.timestamp]

\* The rows generate_sensor_data(rpd) returns, in order: the three nested loops
\* of lines 125-131 unrolled.
SensorRows(sd, nd, rpd) ==
    LET perDay == RangeLen(0, MinutesPerDay, Step(rpd))
        ns     == Len(Sensors)
    IN  [i \in 1..(nd * perDay * ns) |->
            LET j == i - 1
            IN  [sensor_id |-> Sensors[(j % ns) + 1].sensor_id,
                 timestamp |-> Strftime(sd + (j \div (perDay * ns)),
                                        (((j % (perDay * ns)) \div ns) * Step(rpd)) * 60)]]

-----------------------------------------------------------------------------
(* Actions *)

Init ==
    /\ pc = "new"
    /\ start_date = 0
    /\ num_days = 0
    /\ records_per_day = 0
    /\ logs_per_day = 0
    /\ day = 0
    /\ minute = 0
    /\ ix = 1
    /\ n = 0
    /\ data = <<>>
    /\ local = NoLocal
    /\ record = NoRecord
    /\ logs = <<>>
    /\ log_entry = NoRecord
    /\ files = [sensor_data_csv |-> <<>>, sensor_data_by_date |-> <<>>,
                equipment_logs_json |-> <<>>, equipment_logs_by_date |-> <<>>]

\* __init__: pd.to_datetime raises on a string it cannot parse
Construct ==
    /\ pc = "new"
    /\ \E sd \in StartDateInputs, nd \in 1..MaxDays :
         IF ToDatetime(sd).raises
         THEN /\ pc' = "init_raised"
              /\ UNCHANGED <<start_date, num_days>>
         ELSE /\ pc' = "ready"
              /\ start_date' = ToDatetime(sd).date
              /\ num_days' = nd
    /\ UNCHANGED <<records_per_day, logs_per_day, day, minute, ix, n, data, local,
                   record, logs, log_entry, files>>

\* generate_sensor_data is called: lines 123-128 up to the first loop body.
\* 1440 // 0 raises ZeroDivisionError and range(0, 1440, 0) raises ValueError.
CallGenerateSensorData ==
    /\ pc = "ready"
    /\ \E rpd \in RecordsPerDayInputs :
         /\ records_per_day' = rpd
         /\ pc' = IF rpd = 0 \/ Step(rpd) = 0 THEN "sensor_raised" ELSE "sensor_loop"
    /\ data' = <<>>
    /\ day' = 0
    /\ minute' = 0
    /\ ix' = 1
    /\ UNCHANGED <<start_date, num_days, logs_per_day, n, local, record, logs,
                   log_entry, files>>

\* one pass of the innermost loop body, lines 131-178
SensorReading ==
    /\ pc = "sensor_loop"
    /\ LET sensor == Sensors[ix]
           date   == start_date + day
       IN  \E d \in Uniform(sensor.normal_range[1], sensor.normal_range[2]),
              off \in OffsetDraws(sensor, minute),
              noise \in Noise,
              is_anomaly \in RandomBelow(sensor.error_rate) :
           \E factor \in IF is_anomaly THEN AnomalyFactors ELSE {0},
              ax \in AxisDraws(sensor), ay \in AxisDraws(sensor), az \in AxisDraws(sensor) :
             LET base_value == GenerateRealisticValue(sensor, date, minute, d, off)
                 value      == ReadingValue(base_value, noise, is_anomaly, factor)
             IN  \E quality_score \in CalculateQualityScore(sensor, value) :
                   /\ local' = [sensor_id |-> sensor.sensor_id, date |-> date,
                                minute |-> minute, d |-> d, offset |-> off,
                                base_value |-> base_value, noise |-> noise,
                                is_anomaly |-> is_anomaly, anomaly_factor |-> factor,
                                value |-> value, quality_score |-> quality_score]
                   /\ record' = MakeRecord(sensor, date, minute, value, is_anomaly,
                                           quality_score, ax, ay, az)
                   /\ data' = Append(data, RowKey(record'))
    /\ pc' = "sensor_appended"
    /\ UNCHANGED <<start_date, num_days, records_per_day, logs_per_day, day, minute,
                   ix, n, logs, log_entry, files>>

\* the loop headers of lines 131, 128 and 125 after a pass of the body, and the
\* return of line 180 after the last pass; the locals of the pass are gone
SensorLoopNext ==
    /\ pc = "sensor_appended"
    /\ local' = NoLocal
    /\ record' = NoRecord
    /\ IF ix < Len(Sensors)
       THEN /\ ix' = ix + 1
            /\ minute' = minute
            /\ day' = day
            /\ pc' = "sensor_loop"
       ELSE /\ ix' = 1
            /\ IF MinuteInRange(minute + Step(records_per_day))
               THEN /\ minute' = minute + Step(records_per_day)
                    /\ day' = day
                    /\ pc' = "sensor_loop"
               ELSE /\ minute' = 0
                    /\ IF day + 1 < num_days
                       THEN /\ day' = day + 1
                            /\ pc' = "sensor_loop"
                       ELSE /\ day' = day
                            /\ pc' = "sensor_returned"
    /\ UNCHANGED <<start_date, num_days, records_per_day, logs_per_day, n, data,
                   logs, log_entry, files>>

\* save_data: lines 344-352.  generate_sensor_data() runs with its default
\* argument and sensor_data.csv is written; the timestamp column holds strings,
\* so sensor_df['timestamp'].dt raises AttributeError at line 352, before any
\* per-date file is written and before the equipment logs are generated.
SaveData ==
    /\ pc = "ready"
    /\ records_per_day' = DefaultRecordsPerDay
    /\ data' = SensorRows(start_date, num_days, DefaultRecordsPerDay)
    /\ files' = [files EXCEPT !.sensor_data_csv = data']
    /\ pc' = "save_raised"
    /\ UNCHANGED <<start_date, num_days, logs_per_day, day, minute, ix, n, local,
                   record, logs, log_entry>>

Next ==
    \/ Construct
    \/ CallGenerateSensorData
    \/ SensorReading
    \/ SensorLoopNext
    \/ SaveData

Spec == Init /\ [][Next]_vars

\* the loop of generate_sensor_data builds the rows that SensorRows lists
LoopIsSensorRows ==
    pc = "sensor_returned" => data = SensorRows(start_date, num_days, records_per_day)

-----------------------------------------------------------------------------
(* generate_equipment_logs and _generate_log_entry *)

\* level_weights: every level has a positive weight, so np.random.choice can
\* return each of them
LogLevels == {"INFO", "WARNING", "ERROR", "DEBUG"}

LogTemplates(level) ==
    CASE level = "INFO" ->
           {"Equipment startup completed successfully",
            "Maintenance cycle completed",
            "Performance metrics within normal range",
            "System health check passed",
            "Configuration updated successfully"}
      [] level = "WARNING" ->
           {"Temperature approaching upper threshold",
            "Vibration levels elevated but within limits",
            "Maintenance due within 24 hours",
            "Performance efficiency below optimal",
            "Sensor calibration recommended"}
      [] level = "ERROR" ->
           {"Temperature exceeded safety threshold",
            "Unexpected shutdown detected",
            "Sensor malfunction detected",
            "Communication timeout with control system",
            "Safety interlock triggered"}
      [] level = "DEBUG" ->
           {"Sensor reading validation completed",
            "Control loop iteration completed",
            "Memory usage check completed",
            "Network heartbeat successful",
            "Configuration parameter updated"}

Severities == {"LOW", "MEDIUM", "HIGH", "CRITICAL"}

\* random.randint(1000, 9999) and random.randint(100, 999): both ends
ErrorCodes == {1000, 9999}
WarningCodes == {100, 999}

\* the draws lines 299-300 make: none (written 0, "") unless the level is ERROR
ErrorDraws(level) ==
    IF level = "ERROR" THEN ErrorCodes \X Severities ELSE {<<0, "">>}

\* the draw line 303 makes: none (written 0) unless the level is WARNING
WarningDraws(level) == IF level = "WARNING" THEN WarningCodes ELSE {0}

\* a warning code attached to errors too
LevelFieldsWarnOnError(level, err, warn) ==
    CASE level = "ERROR" -> [error_code |-> <<"ERR_", err[1]>>, severity |-> err[2],
                             warning_code |-> <<"WARN_", warn>>]
      [] level = "WARNING" -> [warning_code |-> <<"WARN_", warn>>]
      [] OTHER -> [x \in {} |-> 0]

\* the fields lines 298-303 add to a log entry
LevelFields(level, err, warn) ==
    CASE level = "ERROR" -> [error_code |-> <<"ERR_", err[1]>>, severity |-> err[2]]
      [] level = "WARNING" -> [warning_code |-> <<"WARN_", warn>>]
      [] OTHER -> [x \in {} |-> 0]

\* _generate_log_entry, given its draws
GenerateLogEntry(equipment, date, seconds, level, message, err, warn, cpu, mem, lat) ==
    [equipment_id |-> equipment.equipment_id,
     equipment_name |-> equipment.name,
     timestamp |-> Strftime(date, seconds),
     log_level |-> level,
     message |-> message,
     location |-> equipment.location,
     equipment_type |-> equipment.type,
     status |-> equipment.status]
    @@ LevelFields(level, err, warn)
    @@ [parameters |-> [cpu_usage |-> Round2(cpu),
                        memory_usage |-> Round2(mem),
                        network_latency |-> Round2(lat)]]

\* what the list keeps of a log entry here: its equipment and the date part of
\* its timestamp
LogKey(e) == [equipment_id |-> e.equipment_id, date |-> DatePrefix(e.timestamp)]

\* a range that also yields its stop value
LogInRangeInclusive(k, lpd) == k <= lpd

\* whether range(logs_per_day) yields k
LogInRange(k, lpd) == k < lpd

\* generate_equipment_logs is called: lines 229-236 up to the first loop body;
\* with logs_per_day = 0 no body runs and the empty list is returned
CallGenerateEquipmentLogs ==
    /\ pc = "ready"
    /\ \E lpd \in LogsPerDayInputs :
         /\ logs_per_day' = lpd
         /\ pc' = IF LogInRange(0, lpd) THEN "logs_loop" ELSE "logs_returned"
    /\ logs' = <<>>
    /\ day' = 0
    /\ ix' = 1
    /\ n' = 0
    /\ UNCHANGED <<start_date, num_days, records_per_day, minute, data, local,
                   record, log_entry, files>>

\* one pass of the innermost loop body, lines 237-243
LogEntry ==
    /\ pc = "logs_loop"
    /\ LET equipment == Equipment[ix]
           date      == start_date + day
       IN  \E random_seconds \in {0, LastSecondOfDay}, level \in LogLevels :
           \E message \in LogTemplates(level),
              err \in ErrorDraws(level), warn \in WarningDraws(level),
              cpu \in UniformParam(10 * Scale, 90 * Scale),
              mem \in UniformParam(20 * Scale, 80 * Scale),
              lat \in UniformParam(1 * Scale, 50 * Scale) :
             /\ log_entry' = GenerateLogEntry(equipment, date, random_seconds, level,
                                              message, err, warn, cpu, mem, lat)
             /\ logs' = Append(logs, LogKey(log_entry'))
    /\ pc' = "logs_appended"
    /\ UNCHANGED <<start_date, num_days, records_per_day, logs_per_day, day, minute,
                   ix, n, data, local, record, files>>

\* the loop headers of lines 236, 235 and 232 after a pass of the body, and the
\* return of line 245 after the last pass
LogsLoopNext ==
    /\ pc = "logs_appended"
    /\ log_entry' = NoRecord
    /\ IF LogInRange(n + 1, logs_per_day)
       THEN /\ n' = n + 1
            /\ ix' = ix
            /\ day' = day
            /\ pc' = "logs_loop"
       ELSE /\ n' = 0
            /\ IF ix < Len(Equipment)
               THEN /\ ix' = ix + 1
                    /\ day' = day
                    /\ pc' = "logs_loop"
               ELSE /\ ix' = 1
                    /\ IF day + 1 < num_days
                       THEN /\ day' = day + 1
                            /\ pc' = "logs_loop"
                       ELSE /\ day' = day
                            /\ pc' = "logs_returned"
    /\ UNCHANGED <<start_date, num_days, records_per_day, logs_per_day, minute, data,
                   local, record, logs, files>>

NextLogs ==
    \/ Construct
    \/ CallGenerateEquipmentLogs
    \/ LogEntry
    \/ LogsLoopNext

SpecLogs == Init /\ [][NextLogs]_vars

-----------------------------------------------------------------------------
(* _calculate_quality_score on its own *)

\* the values at, just below and just above every bound of a sensor's ranges
BoundaryValues(sensor) ==
    {b + e : b \in {sensor.normal_range[1], sensor.normal_range[2],
                    sensor.alert_threshold[1], sensor.alert_threshold[2]},
             e \in {-1, 0, 1}}

InitScore ==
    /\ pc = "score_call"
    /\ ix \in 1..Len(Sensors)
    /\ \E v \in BoundaryValues(Sensors[ix]) :
         local = [sensor_id |-> Sensors[ix].sensor_id, value |-> v]
    /\ start_date = 0
    /\ num_days = 0
    /\ records_per_day = 0
    /\ logs_per_day = 0
    /\ day = 0
    /\ minute = 0
    /\ n = 0
    /\ data = <<>>
    /\ record = NoRecord
    /\ logs = <<>>
    /\ log_entry = NoRecord
    /\ files = [sensor_data_csv |-> <<>>, sensor_data_by_date |-> <<>>,
                equipment_logs_json |-> <<>>, equipment_logs_by_date |-> <<>>]

\* self._calculate_quality_score(sensor, value), lines 207-217
CalculateQualityScoreCall ==
    /\ pc = "score_call"
    /\ \E quality_score \in CalculateQualityScore(Sensors[ix], local.value) :
         local' = [sensor_id |-> local.sensor_id, value |-> local.value,
                   quality_score |-> quality_score]
    /\ pc' = "score_returned"
    /\ UNCHANGED <<start_date, num_days, records_per_day, logs_per_day, day, minute,
                   ix, n, data, record, logs, log_entry, files>>

NextScore == CalculateQualityScoreCall

SpecScore == InitScore /\ [][NextScore]_vars

-----------------------------------------------------------------------------
(* Properties *)

\* C1: generate_sensor_data(records_per_day), for records_per_day dividing
\* 1440, returns num_days * records_per_day * (number of sensors) rows; the
\* call save_data makes, with records_per_day = 1440, returns
\* num_days * 1440 * (number of sensors) rows.
C1_SensorRowCount ==
    /\ (pc = "sensor_returned" /\ MinutesPerDay % records_per_day = 0)
          => Len(data) = num_days * records_per_day * Len(Sensors)
    /\ pc = "save_raised" => Len(data) = num_days * 1440 * Len(Sensors)

C1_Witness ==
    /\ pc = "sensor_returned"
    /\ records_per_day = 24
    /\ num_days = 2
    /\ Len(data) = 240

\* C2: generate_equipment_logs(logs_per_day) returns
\* num_days * (number of equipment configs) * logs_per_day entries.
C2_LogEntryCount ==
    pc = "logs_returned" => Len(logs) = num_days * Len(Equipment) * logs_per_day

C2_Witness ==
    /\ pc = "logs_returned"
    /\ num_days = 2
    /\ logs_per_day = 10
    /\ Len(logs) = 100

\* C3: once save_data has ended, every row of the sensor dataset is in exactly
\* one per-date file, the file of its own timestamp's date, and likewise every
\* entry of the equipment logs.
C3_PartitionsHoldEveryRowOnce ==
    pc \in {"save_returned", "save_raised"} =>
      /\ \A i \in 1..Len(data) :
           LET holding == {dt \in DOMAIN files.sensor_data_by_date :
                             \E j \in 1..Len(files.sensor_data_by_date[dt]) :
                                files.sensor_data_by_date[dt][j] = data[i]}
           IN  holding = {DatePrefix(data[i].timestamp)}
      /\ \A i \in 1..Len(logs) :
           LET holding == {dt \in DOMAIN files.equipment_logs_by_date :
                             \E j \in 1..Len(files.equipment_logs_by_date[dt]) :
                                files.equipment_logs_by_date[dt][j] = logs[i]}
           IN  holding = {logs[i].date}

\* C4: generate_sensor_data produces readings only for a records_per_day that
\* evenly divides 1440; any other records_per_day fails without producing rows.
C4_NonDivisorProducesNoReadings ==
    (pc \in {"sensor_loop", "sensor_appended", "sensor_returned"} /\ Len(data) > 0)
       => MinutesPerDay % records_per_day = 0

\* C5: the quality_score of every reading, after rounding to 3 decimals, is in
\* [0.1, 1.0].
C5_QualityScoreInRange ==
    pc = "sensor_appended" =>
      /\ Scale \div 10 <= record.quality_score
      /\ record.quality_score <= Scale

C5_Witness ==
    /\ pc = "sensor_appended"
    /\ record.is_anomaly
    /\ local.quality_score = (60 * Scale) \div 100 - 9
    /\ record.quality_score = (60 * Scale) \div 100

\* C6: _calculate_quality_score gives a score in [0.95, 1.0] to a value in
\* [normal_min, normal_max] (ends included), otherwise a score in [0.7, 0.9] to
\* a value in [alert_min, alert_max] (ends included), and a score in [0.1, 0.6]
\* to every other value.
C6_ClosedIntervalBands ==
    pc = "score_returned" =>
      LET sensor == Sensors[ix]
          v      == local.value
          q      == local.quality_score
          normal == sensor.normal_range[1] <= v /\ v <= sensor.normal_range[2]
          alert  == sensor.alert_threshold[1] <= v /\ v <= sensor.alert_threshold[2]
      IN  /\ normal => (95 * Scale) \div 100 <= q /\ q <= Scale
          /\ (~normal /\ alert) => (70 * Scale) \div 100 <= q /\ q <= (90 * Scale) \div 100
          /\ (~normal /\ ~alert) => (10 * Scale) \div 100 <= q /\ q <= (60 * Scale) \div 100

C6_Witness ==
    /\ pc = "score_returned"
    /\ local.value = Sensors[ix].normal_range[2]
    /\ local.quality_score >= (95 * Scale) \div 100

\* C7: in every reading, status is "error" exactly when is_anomaly is true and
\* "normal" exactly when it is false; an anomalous value is base_value * f for
\* an f in {-2, -1.5, 1.5, 2}, without the noise; any other value is
\* base_value + noise; the record holds the value rounded to 3 decimals.
C7_StatusAndAnomalyValue ==
    pc = "sensor_appended" =>
      /\ record.is_anomaly = local.is_anomaly
      /\ (record.status = "error") <=> record.is_anomaly
      /\ (record.status = "normal") <=> ~record.is_anomaly
      /\ local.is_anomaly =>
           \E f \in {-20, -15, 15, 20} : 10 * local.value = local.base_value * f
      /\ ~local.is_anomaly => local.value = local.base_value + local.noise
      /\ record.value = Round3(local.value)

C7_Witness ==
    /\ pc = "sensor_appended"
    /\ record.is_anomaly
    /\ record.status = "error"
    /\ local.noise # 0
    /\ 10 * local.value = local.base_value * (-15)

\* C8: an anomalous reading has a value outside the sensor's normal_range and
\* a quality score below the high-quality band [0.95, 1.0].
C8_AnomalyOutsideNormalRange ==
    (pc = "sensor_appended" /\ local.is_anomaly) =>
      /\ \/ local.value < Sensors[ix].normal_range[1]
         \/ local.value > Sensors[ix].normal_range[2]
      /\ local.quality_score < (95 * Scale) \div 100

\* C9: _generate_realistic_value returns the draw d from the normal range,
\* plus an offset in [1, 3] exactly for a temperature sensor with
\* 6 <= hour <= 18, then times 0.95 exactly on day index >= 5, then plus the
\* seasonal term exactly for a temperature sensor; so any other sensor gets d
\* on weekdays and 0.95 * d on weekends.
C9_AdjustmentOrder ==
    pc = "sensor_appended" =>
      LET sensor  == Sensors[ix]
          temp    == sensor.type = "temperature"
          hour    == local.minute \div 60
          shift   == temp /\ 6 <= hour /\ hour <= 18
          weekend == local.date % 7 \in {5, 6}
          a       == IF shift THEN local.d + local.offset ELSE local.d
          b       == IF weekend THEN (95 * a) \div 100 ELSE a
          c       == IF temp THEN b + SeasonalTable[local.date + 1] ELSE b
      IN  /\ sensor.normal_range[1] <= local.d /\ local.d <= sensor.normal_range[2]
          /\ shift => Scale <= local.offset /\ local.offset <= 3 * Scale
          /\ local.base_value = c
          /\ (~temp /\ ~weekend) => local.base_value = local.d
          /\ (~temp /\ weekend) => 100 * local.base_value = 95 * local.d

C9_Witness ==
    /\ pc = "sensor_appended"
    /\ Sensors[ix].type = "temperature"
    /\ local.minute = 18 * 60
    /\ local.date % 7 = 5
    /\ local.offset = 3 * Scale
    /\ local.base_value =
         (95 * (local.d + local.offset)) \div 100 + SeasonalTable[local.date + 1]

\* C10: every log entry has a level in {INFO, WARNING, ERROR, DEBUG} and a
\* message from that level's template list, has error_code and severity
\* exactly when its level is ERROR, has warning_code exactly when its level is
\* WARNING, and always has cpu_usage, memory_usage and network_latency.
C10_LogEntryFields ==
    pc = "logs_appended" =>
      /\ log_entry.log_level \in {"INFO", "WARNING", "ERROR", "DEBUG"}
      /\ log_entry.message \in LogTemplates(log_entry.log_level)
      /\ ("error_code" \in DOMAIN log_entry) <=> (log_entry.log_level = "ERROR")
      /\ ("severity" \in DOMAIN log_entry) <=> (log_entry.log_level = "ERROR")
      /\ ("warning_code" \in DOMAIN log_entry) <=> (log_entry.log_level = "WARNING")
      /\ "parameters" \in DOMAIN log_entry
      /\ DOMAIN log_entry.parameters = {"cpu_usage", "memory_usage", "network_latency"}

C10_Witness ==
    /\ pc = "logs_appended"
    /\ log_entry.log_level = "ERROR"
    /\ log_entry.message = "Safety interlock triggered"
    /\ log_entry.severity = "CRITICAL"
    /\ log_entry.error_code = <<"ERR_", 9999>>
    /\ "warning_code" \notin DOMAIN log_entry
    /\ log_entry.parameters.cpu_usage = 10 * Scale

====
